---- MODULE Spec2Model ----
(* png2gif: the generation run of main.go.  gen lists the folder, parses   *)
(* the frame rate and calls BuildGif, which runs readImages (decode and    *)
(* collapse consecutive equal frames), encodeImgPaletted (one goroutine    *)
(* per run, joined by errgroup.Wait) and writeGif.                         *)
EXTENDS Integers, Sequences, FiniteSets, TLC

(* ---------------------------------------------------------------- bounds *)
\* longest listing of input files explored
MaxFrames == 3

(* ------------------------------------------------------------- constants *)
\* thy, thCbCr: thresholds of the YCbCr distance (main.go:77-78)
thy == 100
thCbCr == 200
\* tolerance of the proportion metric, in thousandths (0.001, main.go:457)
PropTol == 1
\* frame rate substituted for 0 (main.go:538) and numerator of the delay unit
\* (main.go:551)
DefaultFps == 30
Centis == 100
\* gif.Encode refuses an image whose width or height is >= 1<<16; sizes are
\* in units of 1<<15 pixels, so the limit is 2
GifMaxDim == 2

(* ------------------------------------------------------------ the inputs *)
\* A decoded image: its proportion class (thousandths), the Y, Cb, Cr levels
\* of its icon, and its larger dimension in units of 1<<15 pixels.
Image(p, y, cb, cr, d) ==
    [kind |-> "img", prop |-> p, y |-> y, cb |-> cb, cr |-> cr, dim |-> d]
ImgA == Image(0, 0, 0, 0, 1)
ImgB == Image(0, 60, 0, 0, 1)
ImgC == Image(0, 120, 0, 0, 1)
ImgE == Image(0, 0, 250, 0, 1)
ImgBig == Image(2, 0, 0, 0, 2)
Images == {ImgA, ImgB, ImgC, ImgE, ImgBig}
\* image.Image(nil)
NilImg == [kind |-> "nil"]

\* What a listed path holds: nothing that can be opened, bytes that are not
\* a png or jpeg, or an image.
Missing == [kind |-> "missing"]
Corrupt == [kind |-> "corrupt"]
FileOf(img) == [kind |-> "image", img |-> img]
Contents == {Missing, Corrupt} \cup {FileOf(i) : i \in Images}

\* The listings of at most MaxFrames files; the path at position s of a
\* listing is identified with s (listFiles returns distinct sorted paths).
FileLists == UNION {[1..n -> Contents] : n \in 0..MaxFrames}

\* The text of the fps input, as a sequence of characters (CharLimit 2).
FpsTexts == { <<>>, <<"0">>, <<"2", "5">>, <<" ", "7">>, <<"-", "3">>, <<"x">> }

(* ------------------------------------------------------------ the errors *)
NoErr == [kind |-> "none"]
ListErr == [kind |-> "list"]
OpenErr(s) == [kind |-> "open", path |-> s]
DecodeErr(s) == [kind |-> "decode", path |-> s]
EncodeErr(ctr) == [kind |-> "encode", run |-> ctr]
CreateErr == [kind |-> "create"]
WriteErr == [kind |-> "write"]

\* the emoji of a resultMsg: "folder" is U+1F4C2, "hammer" U+1F528,
\* "party" U+1F389
NoMsg == [kind |-> "none"]
ResultMsg(err, emoji) == [kind |-> "resultMsg", err |-> err, emoji |-> emoji]

(* -------------------------------------------------------- pure functions *)
Abs(n) == IF n < 0 THEN -n ELSE n

\* Go's integer division: the quotient truncated toward zero.
\* (variant: the operands are swapped)
GoDivSwapped(a, b) == b \div a

GoDiv(a, b) == IF (a < 0) = (b < 0) THEN Abs(a) \div Abs(b)
               ELSE -(Abs(a) \div Abs(b))

\* strings.ReplaceAll(s, " ", "")
StripSpaces(s) == SelectSeq(s, LAMBDA c : c # " ")

Digits == {"0", "1", "2", "3", "4", "5", "6", "7", "8", "9"}
DigitVal(c) == CASE c = "0" -> 0 [] c = "1" -> 1 [] c = "2" -> 2 [] c = "3" -> 3
                 [] c = "4" -> 4 [] c = "5" -> 5 [] c = "6" -> 6 [] c = "7" -> 7
                 [] c = "8" -> 8 [] c = "9" -> 9

RECURSIVE DigitsVal(_)
DigitsVal(s) == IF s = <<>> THEN 0
                ELSE 10 * DigitsVal(SubSeq(s, 1, Len(s) - 1)) + DigitVal(s[Len(s)])

\* strconv.ParseInt(c, 10, 64) with the error dropped: 0 on a syntax error
ParseInt(c) ==
    LET signed == c # <<>> /\ c[1] \in {"-", "+"}
        body == IF signed THEN Tail(c) ELSE c
    IN  IF body = <<>> \/ \E i \in 1..Len(body) : body[i] \notin Digits THEN 0
        ELSE IF signed /\ c[1] = "-" THEN -DigitsVal(body)
        ELSE DigitsVal(body)

\* gen's parse of the fps text
ParseFps(text) == LET c == StripSpaces(text)
                  IN  ParseInt(IF c = <<>> THEN <<"3", "0">> ELSE c)

\* images4.Icon, PropMetric and EucMetric as imagesEqual uses them
Icon(img) == [prop |-> img.prop, y |-> img.y, cb |-> img.cb, cr |-> img.cr]
PropMetric(a, b) == Abs(a.prop - b.prop)
EucMetric(a, b) == <<Abs(a.y - b.y), Abs(a.cb - b.cb), Abs(a.cr - b.cr)>>

imagesEqual(a, b) ==
    LET iconA == Icon(a)
        iconB == Icon(b)
        m == EucMetric(iconA, iconB)
    IN  IF PropMetric(iconA, iconB) > PropTol THEN FALSE
        ELSE IF m[1] > thy THEN FALSE
        ELSE IF m[2] > thCbCr \/ m[3] > thCbCr THEN FALSE
        ELSE TRUE

\* os.Open and image.Decode on the file at a listed path
OpenFails(c) == c.kind = "missing"
Decode(c) == IF c.kind = "image" THEN [img |-> c.img, failed |-> FALSE]
             ELSE [img |-> NilImg, failed |-> TRUE]

\* gif.Encode into a buffer, gif.Decode of the buffer, and the cast of the
\* decoded image to *image.Paletted
GifEncodeFails(img) == img.dim >= GifMaxDim
GifEncode(img) == [kind |-> "gif89a", frame |-> [kind |-> "paletted", pix |-> Icon(img)]]
GifDecodeFails(b) == b.kind # "gif89a"
GifDecode(b) == b.frame
\* (variant: the cast never succeeds)
IsPalettedNever(i) == FALSE

IsPaletted(i) == i.kind = "paletted"

NilPal == [kind |-> "nil"]
PalettedWithDelay(i, d) == [kind |-> "ptr", paletted |-> i, delay |-> d]
ImgWithDelay(img, d) == [img |-> img, delay |-> d]

\* one append of writeGif's loop: the delay unit times the repetitions
\* (variant: the repetitions are forgotten)
FrameDelayUnit(unit, reps) == unit

FrameDelay(unit, reps) == unit * reps

\* the slot of the result slice that the goroutine of run ctr assigns
\* (variant: results are appended in completion order)
SlotNextFree(ctr, slots) ==
    CHOOSE k \in DOMAIN slots :
        slots[k] = NilPal /\ \A j \in DOMAIN slots : slots[j] = NilPal => k <= j

Slot(ctr, slots) == ctr

RECURSIVE SumDelay(_)
SumDelay(runs) == IF runs = <<>> THEN 0
                  ELSE runs[1].delay + SumDelay(Tail(runs))

(* ----------------------------------------------------------------- state *)
VARIABLES
    pc,        \* position of the generation run
    files,     \* gen: paths returned by listFiles, as the content of each
    fpsVal,    \* gen: the parsed fps, the argument of BuildGif
    fps,       \* BuildGif: its fps parameter
    idx,       \* readImages: number of completed iterations of its loop
    opened,    \* readImages: the paths os.Open was called on
    handles,   \* readImages: the source files opened and not yet closed
    prevImg,   \* readImages: prevImg
    delay,     \* readImages: delay
    images,    \* readImages: images, then BuildGif's img
    imgp,      \* encodeImgPaletted: imgp
    gpc,       \* encodeImgPaletted: position of the goroutine of each run
    lck,       \* encodeImgPaletted: holder of lck, 0 when unlocked
    groupErr,  \* errgroup: the first error a goroutine returned
    im_p,      \* BuildGif: the slice encodeImgPaletted returned, <<>> for nil
    g,         \* writeGif: g.Image and g.Delay
    out,       \* the destination file: "absent", "created", "written"
    outOpen,   \* writeGif: the destination handle is open
    ret,       \* the error BuildGif returned
    result,    \* the resultMsg of the run
    m,         \* the model of the tea program
    inFlight,  \* gen commands issued whose resultMsg is not yet delivered
    quit       \* the program has ended by tea.Quit

vars == <<pc, files, fpsVal, fps, idx, opened, handles, prevImg, delay, images,
          imgp, gpc, lck, groupErr, im_p, g, out, outOpen, ret, result,
          m, inFlight, quit>>

readVars == <<idx, opened, handles, prevImg, delay, images>>
encVars == <<imgp, gpc, lck, groupErr, im_p>>
gifVars == <<g, out, outOpen>>
uiVars == <<m, inFlight, quit>>
runVars == <<pc, files, fpsVal, fps, readVars, encVars, gifVars, ret, result>>

\* indices of the inputs of the form (main.go:69-73)
path == 0
output == 1
fpsInput == 2
NumInputs == 3
\* widths of the three inputs set by initialModel (main.go:126-137)
PathWidth == 30
OutputWidth == 20
FpsWidth == 5
\* terminal widths a tea.WindowSizeMsg reports
WindowWidths == {30}

\* initialModel(): the path input focused, nothing loading, finished or
\* failed.  inputFocus is the set of inputs whose Focus() is in effect.
initialModel ==
    [focused |-> 0, loading |-> FALSE, finished |-> FALSE, err |-> NoErr,
     inputFocus |-> {path}, widths |-> <<PathWidth, OutputWidth, FpsWidth>>]

\* the model once Enter on the last input has issued gen from a fresh form
\* with the last input focused
loadingModel ==
    [initialModel EXCEPT !.focused = NumInputs - 1, !.loading = TRUE,
                         !.inputFocus = {}]

Init ==
    /\ pc = "idle"
    /\ files = <<>>
    /\ fpsVal = 0
    /\ fps = 0
    /\ idx = 0
    /\ opened = {}
    /\ handles = {}
    /\ prevImg = NilImg
    /\ delay = 1
    /\ images = <<>>
    /\ imgp = <<>>
    /\ gpc = <<>>
    /\ lck = 0
    /\ groupErr = NoErr
    /\ im_p = <<>>
    /\ g = [Image |-> <<>>, Delay |-> <<>>]
    /\ out = "absent"
    /\ outOpen = FALSE
    /\ ret = NoErr
    /\ result = NoMsg
    /\ m = loadingModel
    /\ inFlight = 1
    /\ quit = FALSE

(* ------------------------------------------------------------------- gen *)
\* listFiles fails: the command returns the folder message.
GenListFails ==
    /\ pc = "idle"
    /\ pc' = "done"
    /\ result' = ResultMsg(ListErr, "folder")
    /\ UNCHANGED <<files, fpsVal, fps, ret>>
    /\ UNCHANGED <<readVars, encVars, gifVars>>
    /\ UNCHANGED uiVars

\* listFiles returns paths; the fps text is parsed and BuildGif is called.
GenStart ==
    /\ pc = "idle"
    /\ \E paths \in FileLists, text \in FpsTexts :
          /\ files' = paths
          /\ fpsVal' = ParseFps(text)
    /\ pc' = "BuildGif"
    /\ UNCHANGED <<fps, ret, result>>
    /\ UNCHANGED <<readVars, encVars, gifVars>>
    /\ UNCHANGED uiVars

\* BuildGif returns err (or nil) to gen, which builds the resultMsg.
Return(err) ==
    /\ ret' = err
    /\ result' = IF err # NoErr THEN ResultMsg(err, "hammer")
                 ELSE ResultMsg(NoErr, "party")
    /\ pc' = "done"

(* -------------------------------------------------------------- BuildGif *)
BuildGifEnter ==
    /\ pc = "BuildGif"
    /\ fps' = IF fpsVal = 0 THEN DefaultFps ELSE fpsVal
    /\ pc' = "readImages"
    /\ UNCHANGED <<files, fpsVal, ret, result>>
    /\ UNCHANGED <<readVars, encVars, gifVars>>
    /\ UNCHANGED uiVars

(* ------------------------------------------------------------ readImages *)
\* The comparison of a decoded image with prevImg (main.go:433-443): the
\* new images, prevImg and delay.
\* (variant: a duplicate becomes the representative)
DedupLatest(imgs, prev, dl, img) ==
    IF prev # NilImg
    THEN IF ~imagesEqual(prev, img)
         THEN [images |-> Append(imgs, ImgWithDelay(prev, dl)), prevImg |-> img, delay |-> 1]
         ELSE [images |-> imgs, prevImg |-> img, delay |-> dl + 1]
    ELSE [images |-> imgs, prevImg |-> img, delay |-> dl]

\* (variant: the current image is appended in place of prevImg)
DedupAppendsCurrent(imgs, prev, dl, img) ==
    IF prev # NilImg
    THEN IF ~imagesEqual(prev, img)
         THEN [images |-> Append(imgs, ImgWithDelay(img, dl)), prevImg |-> img, delay |-> 1]
         ELSE [images |-> imgs, prevImg |-> prev, delay |-> dl + 1]
    ELSE [images |-> imgs, prevImg |-> img, delay |-> dl]

\* (variant: a new run starts with delay 0)
DedupResetsZero(imgs, prev, dl, img) ==
    IF prev # NilImg
    THEN IF ~imagesEqual(prev, img)
         THEN [images |-> Append(imgs, ImgWithDelay(prev, dl)), prevImg |-> img, delay |-> 0]
         ELSE [images |-> imgs, prevImg |-> prev, delay |-> dl + 1]
    ELSE [images |-> imgs, prevImg |-> img, delay |-> dl]

Dedup(imgs, prev, dl, img) ==
    IF prev # NilImg
    THEN IF ~imagesEqual(prev, img)
         THEN [images |-> Append(imgs, ImgWithDelay(prev, dl)), prevImg |-> img, delay |-> 1]
         ELSE [images |-> imgs, prevImg |-> prev, delay |-> dl + 1]
    ELSE [images |-> imgs, prevImg |-> img, delay |-> dl]

\* A failed os.Open or image.Decode of path s: readImages returns the error,
\* which runs the deferred f.Close() of every iteration so far, and BuildGif
\* returns it.
\* (variant: the failing path is skipped)
ReadFailureSkips(s, err) ==
    /\ idx' = s
    /\ UNCHANGED <<handles, prevImg, delay, images, pc, ret, result>>

\* (variant: the return leaves the files open)
ReadFailureLeaks(s, err) ==
    /\ Return(err)
    /\ UNCHANGED <<handles, idx, prevImg, delay, images>>

ReadFailure(s, err) ==
    /\ Return(err)
    /\ handles' = {}
    /\ UNCHANGED <<idx, prevImg, delay, images>>

\* One iteration of the loop over *files.
ReadStep ==
    /\ pc = "readImages"
    /\ idx < Len(files)
    /\ LET s == idx + 1
           c == files[s]
           d == Decode(c)
           n == Dedup(images, prevImg, delay, d.img)
       IN  /\ opened' = opened \cup {s}
           /\ IF OpenFails(c) THEN ReadFailure(s, OpenErr(s))
              ELSE IF d.failed THEN ReadFailure(s, DecodeErr(s))
              ELSE /\ handles' = handles \cup {s}
                   /\ idx' = s
                   /\ images' = n.images
                   /\ prevImg' = n.prevImg
                   /\ delay' = n.delay
                   /\ UNCHANGED <<pc, ret, result>>
    /\ UNCHANGED <<files, fpsVal, fps>>
    /\ UNCHANGED <<encVars, gifVars>>
    /\ UNCHANGED uiVars

\* After the loop: the last image is appended and the slice returned.
ReadReturn ==
    /\ pc = "readImages"
    /\ idx = Len(files)
    /\ images' = Append(images, ImgWithDelay(prevImg, delay))
    /\ handles' = {}
    /\ pc' = "encodeImgPaletted"
    /\ UNCHANGED <<files, fpsVal, fps, idx, opened, prevImg, delay, ret, result>>
    /\ UNCHANGED <<encVars, gifVars>>
    /\ UNCHANGED uiVars

(* ----------------------------------------------------- encodeImgPaletted *)
\* imgp is made and one goroutine per element of *images is started.
EncodeSpawn ==
    /\ pc = "encodeImgPaletted"
    /\ imgp' = [i \in 1..Len(images) |-> NilPal]
    /\ gpc' = [i \in 1..Len(images) |-> "encode"]
    /\ lck' = 0
    /\ groupErr' = NoErr
    /\ pc' = "Wait"
    /\ UNCHANGED <<files, fpsVal, fps, im_p, ret, result>>
    /\ UNCHANGED <<readVars, gifVars>>
    /\ UNCHANGED uiVars

\* errgroup.Group.Go: the group keeps the first non-nil error returned
\* (variant: the goroutine's error is dropped)
FirstErrDropped(cur, new) == cur

FirstErr(cur, new) == IF cur = NoErr THEN new ELSE cur

\* The goroutine of run ctr encodes, decodes and casts.  gif.Encode calls
\* Bounds() on the image: on a nil image the goroutine panics and the
\* process dies.  errgroup keeps the first error returned.
GoEncode(ctr) ==
    /\ pc = "Wait"
    /\ gpc[ctr] = "encode"
    /\ LET im == images[ctr]
       IN  IF im.img = NilImg
           THEN /\ pc' = "panic"
                /\ UNCHANGED <<gpc, groupErr>>
           ELSE IF GifEncodeFails(im.img) \/ GifDecodeFails(GifEncode(im.img))
           THEN /\ groupErr' = FirstErr(groupErr, EncodeErr(ctr))
                /\ gpc' = [gpc EXCEPT ![ctr] = "done"]
                /\ UNCHANGED pc
           ELSE /\ gpc' = [gpc EXCEPT ![ctr] =
                              IF IsPaletted(GifDecode(GifEncode(im.img)))
                              THEN "lock" ELSE "done"]
                /\ UNCHANGED <<pc, groupErr>>
    /\ UNCHANGED <<files, fpsVal, fps, imgp, lck, im_p, ret, result>>
    /\ UNCHANGED <<readVars, gifVars>>
    /\ UNCHANGED uiVars

\* lck.Lock()
\* (variant: the store is not guarded by the mutex)
GoLockNoWait(ctr) ==
    /\ pc = "Wait"
    /\ gpc[ctr] = "lock"
    /\ lck' = ctr
    /\ gpc' = [gpc EXCEPT ![ctr] = "store"]
    /\ UNCHANGED <<pc, files, fpsVal, fps, imgp, groupErr, im_p, ret, result>>
    /\ UNCHANGED <<readVars, gifVars>>
    /\ UNCHANGED uiVars

GoLock(ctr) ==
    /\ pc = "Wait"
    /\ gpc[ctr] = "lock"
    /\ lck = 0
    /\ lck' = ctr
    /\ gpc' = [gpc EXCEPT ![ctr] = "store"]
    /\ UNCHANGED <<pc, files, fpsVal, fps, imgp, groupErr, im_p, ret, result>>
    /\ UNCHANGED <<readVars, gifVars>>
    /\ UNCHANGED uiVars

\* imgp[ctr] = &palettedWithDelay{i, im.delay}; return nil; the deferred
\* lck.Unlock()
GoStore(ctr) ==
    /\ pc = "Wait"
    /\ gpc[ctr] = "store"
    /\ LET im == images[ctr]
           i == GifDecode(GifEncode(im.img))
       IN  imgp' = [imgp EXCEPT ![Slot(ctr, imgp)] = PalettedWithDelay(i, im.delay)]
    /\ lck' = 0
    /\ gpc' = [gpc EXCEPT ![ctr] = "done"]
    /\ UNCHANGED <<pc, files, fpsVal, fps, groupErr, im_p, ret, result>>
    /\ UNCHANGED <<readVars, gifVars>>
    /\ UNCHANGED uiVars

\* errGroup.Wait() returns once every goroutine has returned.
\* (variant: Wait returns at the first error, before the other goroutines)
WaitFailsEarly ==
    /\ pc = "Wait"
    /\ groupErr # NoErr
    /\ im_p' = <<>>
    /\ Return(groupErr)
    /\ UNCHANGED <<files, fpsVal, fps, imgp, gpc, lck, groupErr>>
    /\ UNCHANGED <<readVars, gifVars>>
    /\ UNCHANGED uiVars

WaitFails ==
    /\ pc = "Wait"
    /\ \A i \in DOMAIN gpc : gpc[i] = "done"
    /\ groupErr # NoErr
    /\ im_p' = <<>>
    /\ Return(groupErr)
    /\ UNCHANGED <<files, fpsVal, fps, imgp, gpc, lck, groupErr>>
    /\ UNCHANGED <<readVars, gifVars>>
    /\ UNCHANGED uiVars

WaitReturns ==
    /\ pc = "Wait"
    /\ \A i \in DOMAIN gpc : gpc[i] = "done"
    /\ groupErr = NoErr
    /\ im_p' = imgp
    /\ pc' = "writeGif"
    /\ UNCHANGED <<files, fpsVal, fps, imgp, gpc, lck, groupErr, ret, result>>
    /\ UNCHANGED <<readVars, gifVars>>
    /\ UNCHANGED uiVars

(* -------------------------------------------------------------- writeGif *)
\* The loop over *im; i.paletted on a nil element panics.
WriteGifFrames ==
    /\ pc = "writeGif"
    /\ IF \E k \in 1..Len(im_p) : im_p[k] = NilPal
       THEN /\ pc' = "panic"
            /\ UNCHANGED g
       ELSE /\ g' = [Image |-> [k \in 1..Len(im_p) |-> im_p[k].paletted],
                     Delay |-> [k \in 1..Len(im_p) |->
                                  FrameDelay(GoDiv(Centis, fps), im_p[k].delay)]]
            /\ pc' = "Create"
    /\ UNCHANGED <<files, fpsVal, fps, out, outOpen, ret, result>>
    /\ UNCHANGED <<readVars, encVars>>
    /\ UNCHANGED uiVars

\* os.Create(path) fails
WriteGifCreateFails ==
    /\ pc = "Create"
    /\ Return(CreateErr)
    /\ UNCHANGED <<files, fpsVal, fps>>
    /\ UNCHANGED <<readVars, encVars, gifVars>>
    /\ UNCHANGED uiVars

\* os.Create(path) succeeds
WriteGifCreate ==
    /\ pc = "Create"
    /\ out' = "created"
    /\ outOpen' = TRUE
    /\ pc' = "EncodeAll"
    /\ UNCHANGED <<files, fpsVal, fps, g, ret, result>>
    /\ UNCHANGED <<readVars, encVars>>
    /\ UNCHANGED uiVars

\* gif.EncodeAll(f, g) fails (no image, or the write fails); f is closed
WriteGifEncodeAllFails ==
    /\ pc = "EncodeAll"
    /\ outOpen' = FALSE
    /\ Return(WriteErr)
    /\ UNCHANGED <<files, fpsVal, fps, g, out>>
    /\ UNCHANGED <<readVars, encVars>>
    /\ UNCHANGED uiVars

\* gif.EncodeAll(f, g) writes the file; f is closed
WriteGifEncodeAll ==
    /\ pc = "EncodeAll"
    /\ Len(g.Image) > 0
    /\ out' = "written"
    /\ outOpen' = FALSE
    /\ Return(NoErr)
    /\ UNCHANGED <<files, fpsVal, fps, g>>
    /\ UNCHANGED <<readVars, encVars>>
    /\ UNCHANGED uiVars

(* ------------------------------------------------------------------ Next *)
GoEncodeSome == \E ctr \in DOMAIN gpc : GoEncode(ctr)
GoLockSome == \E ctr \in DOMAIN gpc : GoLock(ctr)
GoStoreSome == \E ctr \in DOMAIN gpc : GoStore(ctr)

Next ==
    \/ GenListFails
    \/ GenStart
    \/ BuildGifEnter
    \/ ReadStep
    \/ ReadReturn
    \/ EncodeSpawn
    \/ GoEncodeSome
    \/ GoLockSome
    \/ GoStoreSome
    \/ WaitFails
    \/ WaitReturns
    \/ WriteGifFrames
    \/ WriteGifCreateFails
    \/ WriteGifCreate
    \/ WriteGifEncodeAllFails
    \/ WriteGifEncodeAll

Spec == Init /\ [][Next]_vars

TypeOK ==
    /\ pc \in {"none", "exit", "idle", "BuildGif", "readImages", "encodeImgPaletted", "Wait",
               "writeGif", "Create", "EncodeAll", "done", "panic"}
    /\ idx \in 0..Len(files)
    /\ lck \in 0..Len(images)
    /\ out \in {"absent", "created", "written"}

(* ---------------------------------------------------------- model.Update *)
\* most gen commands pending at once that the exploration follows
MaxCmds == 2

\* The locals of a generation run, as at its start; p is its position.
FreshRun(p) ==
    /\ pc' = p
    /\ files' = <<>>
    /\ fpsVal' = 0
    /\ fps' = 0
    /\ idx' = 0
    /\ opened' = {}
    /\ handles' = {}
    /\ prevImg' = NilImg
    /\ delay' = 1
    /\ images' = <<>>
    /\ imgp' = <<>>
    /\ gpc' = <<>>
    /\ lck' = 0
    /\ groupErr' = NoErr
    /\ im_p' = <<>>
    /\ g' = [Image |-> <<>>, Delay |-> <<>>]
    /\ out' = "absent"
    /\ outOpen' = FALSE
    /\ ret' = NoErr
    /\ result' = NoMsg

\* the program runs: it has not quit and no goroutine has panicked
Alive == ~quit /\ pc # "panic"

\* nextInput and prevInput
nextInput(f) == (f + 1) % NumInputs
prevInput(f) == IF f - 1 < 0 THEN NumInputs - 1 ELSE f - 1

\* the end of the tea.KeyMsg case: every input blurred, the focused one
\* focused
Refocus(mm) == [mm EXCEPT !.inputFocus = {mm.focused}]

\* (variant: Enter does not look at loading)
KeyEnterWhileLoading ==
    /\ Alive
    /\ IF m.finished \/ m.err # NoErr
       THEN /\ m' = [initialModel EXCEPT !.widths =
                        <<m.widths[path + 1], m.widths[path + 1] \div 2,
                          m.widths[path + 1] \div 2>>]
            /\ UNCHANGED <<inFlight, quit, runVars>>
       ELSE IF m.focused = NumInputs - 1
       THEN /\ inFlight < MaxCmds
            /\ m' = [m EXCEPT !.loading = TRUE, !.inputFocus = {}]
            /\ inFlight' = inFlight + 1
            /\ FreshRun("idle")
            /\ UNCHANGED quit
       ELSE /\ m' = Refocus([m EXCEPT !.focused = nextInput(m.focused)])
            /\ UNCHANGED <<inFlight, quit, runVars>>

\* tea.KeyEnter: nothing while loading; a reset of the form after a result;
\* on the last input the start of gen; otherwise the next input.
KeyEnter ==
    /\ Alive
    /\ IF m.loading
       THEN UNCHANGED vars
       ELSE IF m.finished \/ m.err # NoErr
       THEN /\ m' = [initialModel EXCEPT !.widths =
                        <<m.widths[path + 1], m.widths[path + 1] \div 2,
                          m.widths[path + 1] \div 2>>]
            /\ UNCHANGED <<inFlight, quit, runVars>>
       ELSE IF m.focused = NumInputs - 1
       THEN /\ inFlight < MaxCmds
            /\ m' = [m EXCEPT !.loading = TRUE, !.inputFocus = {}]
            /\ inFlight' = inFlight + 1
            /\ FreshRun("idle")
            /\ UNCHANGED quit
       ELSE /\ m' = Refocus([m EXCEPT !.focused = nextInput(m.focused)])
            /\ UNCHANGED <<inFlight, quit, runVars>>

\* tea.KeyCtrlC, tea.KeyEsc: tea.Quit ends the program and its goroutines.
KeyQuit ==
    /\ Alive
    /\ quit' = TRUE
    /\ pc' = "exit"
    /\ UNCHANGED <<m, inFlight, files, fpsVal, fps, readVars, encVars, gifVars,
                   ret, result>>

\* tea.KeyShiftTab, tea.KeyCtrlP
KeyPrev ==
    /\ Alive
    /\ m' = IF m.loading \/ m.finished \/ m.err # NoErr THEN m
            ELSE Refocus([m EXCEPT !.focused = prevInput(m.focused)])
    /\ UNCHANGED <<inFlight, quit, runVars>>

\* tea.KeyTab, tea.KeyCtrlN
KeyNext ==
    /\ Alive
    /\ m' = IF m.loading \/ m.finished \/ m.err # NoErr THEN m
            ELSE Refocus([m EXCEPT !.focused = nextInput(m.focused)])
    /\ UNCHANGED <<inFlight, quit, runVars>>

\* any other key: the focused input is focused again and receives the key
\* (the texts of the inputs are chosen where gen reads them)
KeyOther ==
    /\ Alive
    /\ m' = Refocus(m)
    /\ UNCHANGED <<inFlight, quit, runVars>>

\* tea.WindowSizeMsg
WindowSize ==
    /\ Alive
    /\ \E w \in WindowWidths :
          m' = [m EXCEPT !.widths = <<w, w \div 2, w \div 2>>]
    /\ UNCHANGED <<inFlight, quit, runVars>>

\* resultMsg: the message the gen command returned reaches Update.
UpdateResult ==
    /\ Alive
    /\ pc = "done"
    /\ m' = [m EXCEPT !.loading = FALSE,
                      !.inputFocus = @ \cup {path},
                      !.err = IF result.err # NoErr THEN result.err ELSE @,
                      !.finished = IF result.err # NoErr THEN @ ELSE TRUE]
    /\ inFlight' = inFlight - 1
    /\ FreshRun("none")
    /\ UNCHANGED quit

\* the program from its start: the form, then the runs it starts
InitUI ==
    /\ pc = "none"
    /\ files = <<>>
    /\ fpsVal = 0
    /\ fps = 0
    /\ idx = 0
    /\ opened = {}
    /\ handles = {}
    /\ prevImg = NilImg
    /\ delay = 1
    /\ images = <<>>
    /\ imgp = <<>>
    /\ gpc = <<>>
    /\ lck = 0
    /\ groupErr = NoErr
    /\ im_p = <<>>
    /\ g = [Image |-> <<>>, Delay |-> <<>>]
    /\ out = "absent"
    /\ outOpen = FALSE
    /\ ret = NoErr
    /\ result = NoMsg
    /\ m = initialModel
    /\ inFlight = 0
    /\ quit = FALSE

NextUI ==
    \/ KeyEnter
    \/ KeyQuit
    \/ KeyPrev
    \/ KeyNext
    \/ KeyOther
    \/ WindowSize
    \/ UpdateResult
    \/ GenListFails
    \/ GenStart
    \/ BuildGifEnter
    \/ ReadStep
    \/ ReadReturn
    \/ EncodeSpawn
    \/ GoEncodeSome
    \/ GoLockSome
    \/ GoStoreSome
    \/ WaitFails
    \/ WaitReturns
    \/ WriteGifFrames
    \/ WriteGifCreateFails
    \/ WriteGifCreate
    \/ WriteGifEncodeAllFails
    \/ WriteGifEncodeAll

\* The command goroutine and the encoders are scheduled while they can run,
\* and the program delivers the message a command returned; keys and
\* window sizes arrive or not.
SpecUI == InitUI /\ [][NextUI]_vars /\ WF_vars(Next) /\ WF_vars(UpdateResult)

(* ---------------------------------------------------------------- claims *)
\* readImages has returned its slice without error
ReadReturned ==
    \/ pc \in {"encodeImgPaletted", "Wait", "writeGif", "Create", "EncodeAll", "panic"}
    \/ pc = "done" /\ ret.kind \in {"none", "encode", "create", "write"}
                   /\ result.err # ListErr

\* BuildGif was called on an empty path sequence
EmptyCall == pc \notin {"idle", "BuildGif"} /\ files = <<>> /\ result # ResultMsg(ListErr, "folder")

\* the first frame of run i: one past the frames merged into earlier runs
RunStart(i) == 1 + SumDelay(SubSeq(images, 1, i - 1))

\* the positions of the listing whose file cannot be opened or decoded
BadPaths == {s \in 1..Len(files) : files[s].kind # "image"}
FirstBad == CHOOSE s \in BadPaths : \A t \in BadPaths : s <= t

\* C1: whenever readImages has returned without error, for a path sequence
\* of any length including 0, the delay fields of the runs it emitted sum to
\* the number of input frames.
C1_DelaysSumToFrames == ReadReturned => SumDelay(images) = Len(files)

\* C2: on an empty path sequence readImages emits zero runs; on exactly one
\* frame it emits exactly one run with repetition count 1.
C2_EmptyAndSingle ==
    ReadReturned =>
        /\ (Len(files) = 0 => images = <<>>)
        /\ (Len(files) = 1 => Len(images) = 1 /\ images[1].delay = 1)

\* C3: BuildGif on an empty path sequence ends by returning an error or by
\* writing a GIF with zero frames; it never encodes a run that has no image
\* and never crashes.
C3_EmptyInputTerminates ==
    EmptyCall =>
        /\ pc # "panic"
        /\ \A i \in 1..Len(images) : images[i].img # NilImg
        /\ (pc = "done" =>
               \/ ret # NoErr
               \/ out = "written" /\ g.Image = <<>>)

\* C4 (as stated): the delay stored for run k is floor(100/f) times its
\* repetition count, f being the fps passed to BuildGif with 0 replaced by 30.
C4_DelayIsFloor ==
    LET f == IF fpsVal = 0 THEN 30 ELSE fpsVal
        unit == IF f > 0 THEN 100 \div f ELSE (-100) \div (-f)
    IN  \A k \in 1..Len(g.Delay) : g.Delay[k] = unit * images[k].delay

\* C4 (amended): the delay stored for run k is the quotient 100/f truncated
\* toward zero, times its repetition count, f being the fps passed to
\* BuildGif with 0 replaced by 30; for f > 0 that quotient is floor(100/f).
C4_DelayIsTruncated ==
    LET f == IF fpsVal = 0 THEN 30 ELSE fpsVal
        unit == IF f > 0 THEN 100 \div f ELSE -(100 \div (-f))
    IN  /\ \A k \in 1..Len(g.Delay) : g.Delay[k] = unit * images[k].delay
        /\ (pc \in {"Create", "EncodeAll"} => Len(g.Delay) = Len(images))

C4_Witness ==
    /\ fpsVal = 0
    /\ Len(g.Delay) = 2
    /\ images[1].delay = 2
    /\ g.Delay = <<6, 3>>

\* C5: in every interleaving of the encoding goroutines, every filled slot i
\* of imgp, and every entry i of the slice encodeImgPaletted returns, is the
\* encoding of run i with its repetition count, and run i is the frame at
\* its first occurrence in the input.
C5_OutputOrderIsRunOrder ==
    LET enc(i) == [kind |-> "ptr",
                   paletted |-> [kind |-> "paletted", pix |-> Icon(images[i].img)],
                   delay |-> images[i].delay]
    IN  /\ \A i \in DOMAIN imgp :
              imgp[i] # NilPal =>
                  /\ imgp[i] = enc(i)
                  /\ images[i].img = files[RunStart(i)].img
        /\ (pc \in {"writeGif", "Create", "EncodeAll"} =>
               /\ Len(im_p) = Len(images)
               /\ \A i \in 1..Len(im_p) : im_p[i] = enc(i))

\* the goroutine of run 3 has stored its result before those of runs 1, 2
C5_Witness ==
    /\ pc = "Wait"
    /\ Len(imgp) = 3
    /\ imgp[1] = NilPal
    /\ imgp[2] = NilPal
    /\ imgp[3] # NilPal

\* C6: if the file at some position cannot be opened or decoded, BuildGif
\* returns the error of the first such path, naming it, no later path is
\* opened, and the destination file is never created or written.
C6_BadFileAborts ==
    (pc # "idle" /\ BadPaths # {}) =>
        /\ out = "absent"
        /\ ~outOpen
        /\ opened \subseteq 1..FirstBad
        /\ pc \in {"BuildGif", "readImages", "done"}
        /\ (pc = "done" =>
               /\ ret = IF files[FirstBad].kind = "missing"
                        THEN OpenErr(FirstBad) ELSE DecodeErr(FirstBad)
               /\ result.err = ret
               /\ opened = 1..FirstBad)

\* an undecodable file in the middle of three
C6_Witness ==
    /\ pc = "done"
    /\ Len(files) = 3
    /\ files[2] = Corrupt
    /\ files[3] = Missing
    /\ ret = DecodeErr(2)

\* C7: if at least one encoding task fails, encodeImgPaletted returns one
\* error and no slice, and BuildGif returns that error without creating or
\* writing the destination file, however many other tasks succeed or fail.
C7_EncodeFailureAborts ==
    LET failing == {i \in 1..Len(images) :
                       images[i].img # NilImg /\ images[i].img.dim >= 2}
    IN  (ReadReturned /\ failing # {}) =>
            /\ out = "absent"
            /\ ~outOpen
            /\ im_p = <<>>
            /\ pc \in {"encodeImgPaletted", "Wait", "done"}
            /\ (pc = "done" =>
                   /\ ret.kind = "encode"
                   /\ ret.run \in failing
                   /\ ret = groupErr
                   /\ result.err = ret)

\* two tasks failed, the later run's first, and one succeeded
C7_Witness ==
    /\ pc = "done"
    /\ Len(images) = 3
    /\ images[1].img = ImgBig
    /\ imgp[2] # NilPal
    /\ ret = EncodeErr(3)

\* C8: a failure to read a source (listing the folder, opening or decoding
\* an input file) never carries the tag that a failure to encode or
\* assemble the output carries.
C8_TagsDistinguish ==
    LET sourceKinds == {"list", "open", "decode"}
        outputKinds == {"encode", "create", "write"}
        sourceTags == {"folder"}
        outputTags == {"hammer"}
    IN  (pc = "done" /\ result.err # NoErr) =>
            /\ (result.err.kind \in sourceKinds => result.emoji \in sourceTags)
            /\ (result.err.kind \in outputKinds => result.emoji \in outputTags)

\* C9: for N >= 1 frames that the oracle judges all identical to the first,
\* readImages emits exactly one run: the first frame, N times.
C9_AllIdentical ==
    (/\ ReadReturned
     /\ Len(files) >= 1
     /\ \A i \in 1..Len(files) : imagesEqual(files[1].img, files[i].img)) =>
        images = <<[img |-> files[1].img, delay |-> Len(files)]>>

\* three frames identical to the first, the last two different from each
\* other
C9_Witness ==
    /\ ReadReturned
    /\ Len(files) = 3
    /\ files[1].img = ImgB
    /\ files[2].img = ImgA
    /\ files[3].img = ImgC
    /\ Len(images) = 1

\* C10: for N >= 1 frames that the oracle judges pairwise different,
\* readImages emits exactly N runs, run i being frame i with repetition
\* count 1.
C10_AllDistinct ==
    (/\ ReadReturned
     /\ Len(files) >= 1
     /\ \A i, j \in 1..Len(files) :
            i # j => ~imagesEqual(files[i].img, files[j].img)) =>
        /\ Len(images) = Len(files)
        /\ \A i \in 1..Len(files) :
               images[i] = [img |-> files[i].img, delay |-> 1]

C10_Witness ==
    /\ ReadReturned
    /\ Len(files) = 3
    /\ files[1].img = ImgA
    /\ files[2].img = ImgC
    /\ files[3].img = ImgE
    /\ Len(images) = 3

\* BuildGif has returned nil and gen has built the success message
Succeeded == pc = "done" /\ result = ResultMsg(NoErr, "party")

\* encodeImgPaletted has returned its slice without error
EncodeReturned ==
    \/ pc \in {"writeGif", "Create", "EncodeAll"}
    \/ pc = "done" /\ ret.kind \in {"create", "write"}
    \/ Succeeded

\* C11: when BuildGif succeeds, the assembled GIF holds one frame and one
\* delay per paletted run, in run order, the delay of run i being the delay
\* unit times its repetition count; [A, A, B] at fps 25 gives two frames with
\* delays 8 and 4.
C11_GifHoldsRuns ==
    LET f == IF fpsVal = 0 THEN 30 ELSE fpsVal
        unit == IF f > 0 THEN 100 \div f ELSE -(100 \div (-f))
    IN  Succeeded =>
            /\ out = "written"
            /\ Len(g.Image) = Len(im_p)
            /\ Len(g.Delay) = Len(im_p)
            /\ Len(im_p) = Len(images)
            /\ \A i \in 1..Len(images) :
                   /\ g.Image[i] = [kind |-> "paletted", pix |-> Icon(images[i].img)]
                   /\ g.Image[i] = im_p[i].paletted
                   /\ g.Delay[i] = unit * images[i].delay
            /\ (/\ Len(files) = 3
                /\ fpsVal = 25
                /\ files[1] = files[2]
                /\ ~imagesEqual(files[1].img, files[3].img)) =>
                   /\ Len(g.Image) = 2
                   /\ g.Delay = <<8, 4>>

C11_Witness ==
    /\ Succeeded
    /\ fpsVal = 25
    /\ files = <<FileOf(ImgA), FileOf(ImgA), FileOf(ImgC)>>
    /\ g.Delay = <<8, 4>>

\* C12: for a non-empty sequence of N frames read successfully, readImages
\* emits between 1 and N runs, each with repetition count at least 1.
C12_RunCountBounds ==
    (ReadReturned /\ Len(files) >= 1) =>
        /\ Len(images) >= 1
        /\ Len(images) <= Len(files)
        /\ \A i \in 1..Len(images) : images[i].delay >= 1

C12_Witness ==
    /\ ReadReturned
    /\ Len(files) = 3
    /\ Len(images) = 2
    /\ images[2].delay = 2

\* C13: in readImages the representative prevImg is always the first frame
\* of the current run, never a later duplicate, so with A~B, B~C, A#C the
\* input [A, B, C] yields the runs (A, 2), (C, 1).
C13_ComparesWithRepresentative ==
    /\ (pc = "readImages" /\ idx >= 1) =>
           /\ delay >= 1
           /\ delay <= idx
           /\ prevImg = files[idx - delay + 1].img
    /\ (ReadReturned /\ files = <<FileOf(ImgA), FileOf(ImgB), FileOf(ImgC)>>) =>
           images = <<[img |-> ImgA, delay |-> 2], [img |-> ImgC, delay |-> 1]>>

C13_Witness ==
    /\ ReadReturned
    /\ imagesEqual(ImgA, ImgB) /\ imagesEqual(ImgB, ImgC) /\ ~imagesEqual(ImgA, ImgC)
    /\ files = <<FileOf(ImgA), FileOf(ImgB), FileOf(ImgC)>>
    /\ Len(images) = 2

\* C14: whenever encodeImgPaletted returns without error, its result has
\* one non-nil entry per run and entry i carries the repetition count of
\* run i; writeGif finds no nil entry.
C14_EveryRunEncoded ==
    EncodeReturned =>
        /\ Len(im_p) = Len(images)
        /\ \A i \in 1..Len(im_p) :
               /\ im_p[i] # NilPal
               /\ im_p[i].delay = images[i].delay

C14_Witness ==
    /\ pc = "writeGif"
    /\ Len(im_p) = 2
    /\ im_p[1].delay = 2
    /\ im_p[2].delay = 1

\* C15: encodeImgPaletted returns, with a result or an error, only after
\* every goroutine it started has finished, so writeGif never runs beside
\* an encoding task.
C15_ReturnsAfterAllTasks ==
    (\/ EncodeReturned
     \/ pc = "done" /\ ret.kind = "encode") =>
        /\ DOMAIN gpc = 1..Len(images)
        /\ \A i \in DOMAIN gpc : gpc[i] = "done"
        /\ lck = 0

\* the task of run 1 failed and the task of run 3 still stored its result
C15_Witness ==
    /\ pc = "done"
    /\ ret = EncodeErr(1)
    /\ Len(gpc) = 3
    /\ imgp[3] # NilPal

\* C16: at most one goroutine at a time is storing into imgp, a slot
\* changes only by the store of the goroutine of its own run, which holds
\* the lock, and only from nil.
C16_ExclusiveSlotWrites ==
    /\ [](/\ Cardinality({i \in DOMAIN gpc : gpc[i] = "store"}) <= 1
          /\ \A i \in DOMAIN gpc : gpc[i] = "store" => lck = i)
    /\ [][DOMAIN imgp' = DOMAIN imgp =>
            \A i \in DOMAIN imgp :
                imgp'[i] # imgp[i] =>
                    /\ gpc[i] = "store"
                    /\ gpc'[i] = "done"
                    /\ lck = i
                    /\ imgp[i] = NilPal]_vars

\* run 2 holds the lock while run 1 waits for it
C16_Witness ==
    /\ pc = "Wait"
    /\ Len(gpc) >= 2
    /\ gpc[1] = "lock"
    /\ gpc[2] = "store"
    /\ lck = 2

\* C17: when readImages has returned, by success or by an open or decode
\* failure at any position, no source file it opened is still open; when
\* writeGif has returned after creating the destination, that file is closed.
C17_HandlesClosedOnReturn ==
    /\ pc # "readImages" => handles = {}
    /\ pc # "EncodeAll" => ~outOpen

C17_Witness ==
    /\ pc = "done"
    /\ ret = DecodeErr(3)
    /\ opened = {1, 2, 3}
    /\ handles = {}

\* C18: during readImages at most one source file is open at any point.
C18_OneHandleAtATime == Cardinality(handles) <= 1

\* C19: at most one generation run is in flight; a gen command is issued
\* only by Enter with the last input focused while loading, finished and err
\* are unset; while loading is set nothing but the delivery of the resultMsg
\* changes loading, finished, err or the focused index.
C19_OneRunInFlight ==
    /\ [](/\ inFlight <= 1
          /\ (m.loading <=> inFlight = 1)
          /\ (inFlight = 0 => pc \in {"none", "exit"})
          /\ (pc = "none" => inFlight = 0))
    /\ [][inFlight' > inFlight =>
            /\ KeyEnter
            /\ m.focused = NumInputs - 1
            /\ ~m.loading /\ ~m.finished /\ m.err = NoErr
            /\ m'.loading]_vars
    /\ [][(m.loading /\ <<m.loading, m.finished, m.err, m.focused>>' #
                        <<m.loading, m.finished, m.err, m.focused>>) =>
            UpdateResult]_vars

\* a second run is in flight after the first was delivered and the form reset
C19_Witness ==
    /\ inFlight = 1
    /\ m.loading
    /\ pc = "Wait"
    /\ m.widths = <<30, 15, 15>>
    /\ m.inputFocus = {fpsInput}

\* C20: every generation run the UI starts eventually delivers its
\* resultMsg (unless the user quits first), after which loading is unset
\* and exactly one of finished and err is set, for every folder content
\* including a folder without any .png or .jpg file.
C20_RunDeliversResult ==
    /\ (inFlight = 1) ~> (quit \/ (inFlight = 0 /\ ~m.loading))
    /\ [][UpdateResult => /\ inFlight' = 0
                          /\ ~m'.loading
                          /\ m'.finished # (m'.err # NoErr)]_vars
====
